---- MODULE Spec2Model ----
(***************************************************************************)
(* Model of the CV ranker front end: the bounded search-history store of   *)
(* db_manager.py and the two evaluation pipelines that write to it         *)
(* (app_with_progress.py and app_gdpr_compliant.py).                       *)
(*                                                                         *)
(* Strings are sequences of one-character strings, dicts are sets of       *)
(* <<key, value>> pairs, an optional value is a sequence of length 0 or 1. *)
(***************************************************************************)
EXTENDS Integers, Sequences, FiniteSets, TLC

(***************************************************************************)
(* Program constants and bounds of the model.                              *)
(***************************************************************************)
MAX_RECORDS == 5

\* number of sessions that call the store concurrently
NumProcs == 2
\* AUTOINCREMENT ids handed out before a session stops saving
MaxId == 6
\* last value of the one-second CURRENT_TIMESTAMP clock
MaxClock == 2

Procs == 1..NumProcs

VARIABLES
    db,        \* rows of table search_history
    nextId,    \* next AUTOINCREMENT id (sqlite_sequence + 1)
    clock,     \* CURRENT_TIMESTAMP, one-second resolution
    pc,        \* per session: position inside save_search_result
    total,     \* per session: local total_records
    rid,       \* per session: local record_id
    last,      \* result of the store operation that completed last
    ppc,           \* progress app: "submitted" between validate_and_submit
                   \* and the chained execute_ranking; GDPR app: "validated"
                   \* between the checks of the handler and its calls
    state_payload, \* progress app: the gr.State holding the payload
    run            \* the pipeline run in progress or finished last

storeVars == <<db, nextId, clock, pc, total, rid, last>>

pipeVars == <<ppc, state_payload, run>>

vars == <<db, nextId, clock, pc, total, rid, last, ppc, state_payload, run>>

(***************************************************************************)
(* Small helpers.                                                          *)
(***************************************************************************)
Min(a, b) == IF a < b THEN a ELSE b

Ids(d) == {r.id : r \in d}

\* what the last completed call returned: ret is its return value (True /
\* found), rows the ids it listed, existed whether the id it was given was
\* stored when it was called, msg the kind of text a UI handler returned
Result(op, id, ret, rows, existed, msg) ==
    [op |-> op, id |-> id, ret |-> ret, rows |-> rows, existed |-> existed, msg |-> msg]

NoResult == Result("none", 0, FALSE, <<>>, FALSE, "")

(***************************************************************************)
(* The store: SQL statements of db_manager.py.                             *)
(***************************************************************************)

\* INSERT INTO search_history (...) VALUES (...): id from AUTOINCREMENT,
\* timestamp from DEFAULT CURRENT_TIMESTAMP, flowise_response NULL when the
\* dict is falsy.
InsertRow(id, ts, args) ==
    [id |-> id, timestamp |-> ts,
     candidate_name |-> args.candidate_name,
     match_score |-> args.match_score,
     recommendation |-> args.recommendation,
     social_profiles |-> args.social_profiles,
     flowise_response |-> IF args.flowise_response # {}
                          THEN <<args.flowise_response>> ELSE <<>>]

OldestSetsOneShort(d, k) ==
    {S \in SUBSET d :
        /\ Cardinality(S) = Min(k - 1, Cardinality(d))
        /\ \A s \in S : \A r \in d \ S : s.timestamp <= r.timestamp}

\* SELECT id FROM search_history ORDER BY timestamp ASC LIMIT k: the sets of
\* rows the statement may return.  The statement orders by timestamp only, so
\* among rows with equal timestamps SQL leaves the order open.
OldestSets(d, k) ==
    {S \in SUBSET d :
        /\ Cardinality(S) = Min(k, Cardinality(d))
        /\ \A s \in S : \A r \in d \ S : s.timestamp <= r.timestamp}

\* rows with the greatest timestamp
MaxTs(d) == {r \in d : \A q \in d : q.timestamp <= r.timestamp}

\* SELECT ... ORDER BY timestamp DESC LIMIT k: the sequences of ids the
\* statement may return.
RECURSIVE NewestFirst(_, _)
NewestFirst(d, k) ==
    IF k = 0 \/ d = {} THEN {<<>>}
    ELSE UNION {{<<r.id>> \o s : s \in NewestFirst(d \ {r}, k - 1)} : r \in MaxTs(d)}

\* seq is one of the sequences NewestFirst(d, k): the statement may return it
RECURSIVE IsNewestFirst(_, _, _)
IsNewestFirst(seq, d, k) ==
    IF k = 0 \/ d = {} THEN seq = <<>>
    ELSE /\ seq # <<>>
         /\ \E r \in MaxTs(d) : r.id = Head(seq) /\ IsNewestFirst(Tail(seq), d \ {r}, k - 1)

(***************************************************************************)
(* save_search_result, one step per committed statement.                   *)
(***************************************************************************)
SaveArgs ==
    {[candidate_name |-> <<"a", "b">>, match_score |-> 72, recommendation |-> 10,
      social_profiles |-> {}, flowise_response |-> {}]}

NextRowIdAfterLargest(d, seq) ==
    IF d = {} THEN 1 ELSE (CHOOSE i \in Ids(d) : \A j \in Ids(d) : j <= i) + 1

\* id INTEGER PRIMARY KEY AUTOINCREMENT: the id of the next row is one more
\* than the largest id the table ever held (seq), whatever rows are left
NextRowId(d, seq) == seq

\* INSERT ... ; conn.commit(); record_id = cursor.lastrowid
SaveInsert(p, args) ==
    /\ pc[p] = "idle"
    /\ db' = db \cup {InsertRow(NextRowId(db, nextId), clock, args)}
    /\ nextId' = NextRowId(db, nextId) + 1
    /\ rid' = [rid EXCEPT ![p] = NextRowId(db, nextId)]
    /\ pc' = [pc EXCEPT ![p] = "inserted"]
    /\ last' = NoResult
    /\ UNCHANGED <<clock, total>>
    /\ UNCHANGED pipeVars

\* SELECT COUNT(*) FROM search_history
CountRowsBeforeInsert(d) == Cardinality(d) - 1

CountRows(d) == Cardinality(d)

SaveCount(p) ==
    /\ pc[p] = "inserted"
    /\ total' = [total EXCEPT ![p] = CountRows(db)]
    /\ pc' = [pc EXCEPT ![p] = "counted"]
    /\ UNCHANGED <<db, nextId, clock, rid, last>>
    /\ UNCHANGED pipeVars

\* if total_records > MAX_RECORDS: DELETE ... LIMIT total_records - MAX_RECORDS
\* conn.commit(); return record_id (the locals end with the call)
SaveEvict(p) ==
    /\ pc[p] = "counted"
    /\ IF total[p] > MAX_RECORDS
       THEN \E S \in OldestSets(db, total[p] - MAX_RECORDS) : db' = db \ S
       ELSE db' = db
    /\ pc' = [pc EXCEPT ![p] = "idle"]
    /\ last' = Result("save", rid[p], TRUE, <<>>, FALSE, "")
    /\ total' = [total EXCEPT ![p] = 0]
    /\ rid' = [rid EXCEPT ![p] = 0]
    /\ UNCHANGED <<nextId, clock>>
    /\ UNCHANGED pipeVars

(***************************************************************************)
(* The other store operations; each is one statement in one transaction.   *)
(***************************************************************************)

\* get_search_history(): SELECT ... ORDER BY timestamp DESC LIMIT MAX_RECORDS
get_search_history ==
    /\ \E rows \in NewestFirst(db, MAX_RECORDS) :
          last' = Result("list", 0, TRUE, rows, FALSE, "")
    /\ UNCHANGED <<db, nextId, clock, pc, total, rid>>
    /\ UNCHANGED pipeVars

\* the dict get_search_result_by_id makes of a row: flowise_response is
\* json.loads of the column, {} when the column is NULL
GetRecord(r) ==
    [id |-> r.id, timestamp |-> r.timestamp,
     candidate_name |-> r.candidate_name,
     match_score |-> r.match_score,
     recommendation |-> r.recommendation,
     social_profiles |-> r.social_profiles,
     flowise_response |-> IF r.flowise_response # <<>> THEN r.flowise_response[1] ELSE {}]

\* get_search_result_by_id(record_id): the record (in rows), or None
get_search_result_by_id(record_id) ==
    /\ last' = Result("get", record_id, record_id \in Ids(db),
                      IF record_id \in Ids(db)
                      THEN <<GetRecord(CHOOSE r \in db : r.id = record_id)>> ELSE <<>>,
                      record_id \in Ids(db), "")
    /\ UNCHANGED <<db, nextId, clock, pc, total, rid>>
    /\ UNCHANGED pipeVars

ClearRowsButNewest(d) == MaxTs(d)

\* DELETE FROM search_history: the rows left
ClearRows(d) == {}

\* clear_all_search_history(): DELETE FROM search_history
clear_all_search_history ==
    /\ db' = ClearRows(db)
    /\ last' = Result("clear", 0, TRUE, <<>>, FALSE, "")
    /\ UNCHANGED <<nextId, clock, pc, total, rid>>
    /\ UNCHANGED pipeVars

DeleteRowsAndOlder(d, record_id) == {r \in d : r.id > record_id}

DeleteRowsKeepsRow(d, record_id) == d

\* delete_search_record(record_id): DELETE ... WHERE id = ?; return True.
\* The rows left and the value returned.
DeleteRows(d, record_id) == {r \in d : r.id # record_id}

DeleteReturn(d, record_id) == TRUE

\* delete_search_record_action(record_id): guards the id, deletes, and on
\* success reloads the history
delete_search_record_action(record_id) ==
    /\ IF record_id > 0
       THEN /\ db' = DeleteRows(db, record_id)
            /\ IF DeleteReturn(db, record_id)
               THEN last' = Result("delete", record_id, TRUE, <<>>,
                                   record_id \in Ids(db), "history")
               ELSE last' = Result("delete", record_id, FALSE, <<>>,
                                   record_id \in Ids(db), "failed")
       ELSE /\ db' = db
            /\ last' = Result("delete", record_id, FALSE, <<>>, FALSE, "invalid")
    /\ UNCHANGED <<nextId, clock, pc, total, rid>>
    /\ UNCHANGED pipeVars

CleanupRowsDropsNewest(d) ==
    IF CountRows(d) > MAX_RECORDS
    THEN {S \in SUBSET d :
            /\ Cardinality(S) = MAX_RECORDS
            /\ \A s \in S : \A r \in d \ S : s.timestamp <= r.timestamp}
    ELSE {d}

\* cleanup_old_records(): total_records = COUNT(*); if it is above
\* MAX_RECORDS, DELETE ... WHERE id IN (SELECT id ... ORDER BY timestamp ASC
\* LIMIT total_records - MAX_RECORDS).  The stores the call may leave.
CleanupRows(d) ==
    IF CountRows(d) > MAX_RECORDS
    THEN {d \ S : S \in OldestSets(d, CountRows(d) - MAX_RECORDS)}
    ELSE {d}

\* cleanup_old_records(), run by one caller with no call in between; it
\* returns nothing
cleanup_old_records ==
    /\ db' \in CleanupRows(db)
    /\ last' = Result("cleanup", 0, TRUE, <<>>, FALSE, "")
    /\ UNCHANGED <<nextId, clock, pc, total, rid>>
    /\ UNCHANGED pipeVars

(***************************************************************************)
(* Export: export_results_json / _html / _csv of db_manager.py and         *)
(* export_results_action of app_with_progress.py.  writable is the set of  *)
(* formats whose file can be written; a path is <<fmt>>, None is <<>>.     *)
(***************************************************************************)
Formats == {"json", "html", "csv"}

\* the three export functions: the path, or None when writing raised
export_results_json(writable) == IF "json" \in writable THEN <<"json">> ELSE <<>>

export_results_html(writable) == IF "html" \in writable THEN <<"html">> ELSE <<>>

export_results_csv(writable) == IF "csv" \in writable THEN <<"csv">> ELSE <<>>

ExportMessageJsonOnly(full_response, json_path, html_path, csv_path) ==
    IF full_response = {} THEN "no_results"
    ELSE IF json_path # <<>> THEN "success"
    ELSE "partial"

\* the text export_results_action returns
ExportMessage(full_response, json_path, html_path, csv_path) ==
    IF full_response = {} THEN "no_results"
    ELSE IF json_path # <<>> /\ html_path # <<>> /\ csv_path # <<>> THEN "success"
    ELSE "partial"

\* export_results_action(full_response, flowise_html, candidate_name): rows
\* are the values the three export functions returned, written the files
\* that were written
export_results_action(full_response, writable) ==
    /\ LET json_path == export_results_json(writable)
           html_path == export_results_html(writable)
           csv_path == export_results_csv(writable)
           msg == ExportMessage(full_response, json_path, html_path, csv_path)
       IN  last' = [op |-> "export", id |-> 0, ret |-> msg = "success",
                    rows |-> IF full_response = {} THEN <<>>
                             ELSE <<json_path, html_path, csv_path>>,
                    existed |-> FALSE, msg |-> msg,
                    written |-> IF full_response = {} THEN {} ELSE writable]
    /\ UNCHANGED <<db, nextId, clock, pc, total, rid>>
    /\ UNCHANGED pipeVars

Tick ==
    /\ clock < MaxClock
    /\ clock' = clock + 1
    /\ UNCHANGED <<db, nextId, pc, total, rid, last>>
    /\ UNCHANGED pipeVars

(***************************************************************************)
(* Text: str.strip(), the validators of app_with_progress.py.              *)
(***************************************************************************)
IsSpace(c) == c = " "

Letters == {"a", "b", "c", "u", "x"}

Digits == {"1", "2", "3", "4", "5", "6", "7"}

Rep(c, n) == [i \in 1..n |-> c]

RECURSIVE LStrip(_)
LStrip(s) == IF s # <<>> /\ IsSpace(Head(s)) THEN LStrip(Tail(s)) ELSE s

RECURSIVE RStrip(_)
RStrip(s) ==
    IF s # <<>> /\ IsSpace(s[Len(s)]) THEN RStrip(SubSeq(s, 1, Len(s) - 1)) ELSE s

\* str.strip()
Strip(s) == RStrip(LStrip(s))

\* re.match(r'^[a-zA-Z0-9._%+-]+@[a-zA-Z0-9.-]+\.[a-zA-Z]{2,}$', email)
EmailMatches(s) ==
    \E i \in 1..Len(s) : \E j \in 1..Len(s) :
        /\ s[i] = "@"
        /\ i > 1
        /\ \A k \in 1..(i - 1) : s[k] \in Letters \cup Digits \cup {".", "_", "%", "+", "-"}
        /\ j > i + 1
        /\ s[j] = "."
        /\ \A k \in (i + 1)..(j - 1) : s[k] \in Letters \cup Digits \cup {".", "-"}
        /\ Len(s) - j >= 2
        /\ \A k \in (j + 1)..Len(s) : s[k] \in Letters

\* validate_email: optional field, else the pattern
validate_email(email) == email = <<>> \/ EmailMatches(email)

\* re.sub(r'[\s\-\(\)\+]', '', phone)
CleanPhone(phone) == SelectSeq(phone, LAMBDA c : c \notin {" ", "-", "(", ")", "+"})

\* validate_phone: optional field, else 7+ digits after removing separators
validate_phone(phone) ==
    \/ phone = <<>>
    \/ /\ Len(CleanPhone(phone)) >= 7
       /\ \A k \in 1..Len(CleanPhone(phone)) : CleanPhone(phone)[k] \in Digits

\* validate_cv_jd: both at least 20 characters after strip()
validate_cv_jd(cv_text, jd_text) ==
    /\ ~(cv_text = <<>> \/ Len(Strip(cv_text)) < 20)
    /\ ~(jd_text = <<>> \/ Len(Strip(jd_text)) < 20)

\* validate_candidate_name: at least 2 characters after strip()
validate_candidate_name(name) == ~(name = <<>> \/ Len(Strip(name)) < 2)

(***************************************************************************)
(* Requests: the form fields a recruiter submits.  BaseRequest passes every *)
(* check; Requests are the forms that differ from it in at most one field.  *)
(***************************************************************************)
Url == <<"u">>

ValidEmail == <<"a", "@", "b", ".", "c", "c">>

ValidPhone == <<"+", "1", "2", "3", "-", "4", "5", "6", "7">>

BaseRequest ==
    [candidate_name |-> <<"a", "b">>, cv_text |-> Rep("x", 20), jd_text |-> Rep("x", 20),
     email |-> <<>>, phone |-> <<>>,
     github |-> Url, linkedin |-> <<>>, portfolio |-> <<>>, facebook |-> <<>>,
     other |-> <<>>, evaluate_social |-> TRUE]

FormFields ==
    [candidate_name : {<<"a", "b">>, <<>>, <<" ">>, <<" ", "a">>},
     cv_text : {Rep("x", 20), <<>>, <<" ", " ">>, Rep("x", 19)},
     jd_text : {Rep("x", 20), <<>>, Rep("x", 19)},
     email : {<<>>, ValidEmail, <<"a", "@", "b">>},
     phone : {<<>>, ValidPhone, <<"1", "2">>},
     github : {Url, <<>>, <<" ">>},
     linkedin : {<<>>, Url},
     portfolio : {<<>>},
     facebook : {<<>>},
     other : {<<>>, Url},
     evaluate_social : BOOLEAN]

Deviations(r) == Cardinality({f \in DOMAIN BaseRequest : r[f] # BaseRequest[f]})

\* no provider link, but an e-mail address
ContactOnlyRequest == [BaseRequest EXCEPT !.github = <<>>, !.email = ValidEmail]

Requests == {r \in FormFields : Deviations(r) <= 1} \cup {ContactOnlyRequest}

(***************************************************************************)
(* Dicts as sets of <<key, value>> pairs.                                  *)
(***************************************************************************)
HasKey(dict, key) == \E kv \in dict : kv[1] = key

Range(seq) == {seq[i] : i \in 1..Len(seq)}

(***************************************************************************)
(* The services.  A scoring answer and a social-evaluation answer are what  *)
(* requests.post gives the caller.                                         *)
(***************************************************************************)
ScoringFailures == {"http_error", "timeout", "unreachable"}

ScoreAnswers ==
    {[status |-> "ok", match_score |-> 72, recommendation |-> 250]}
    \cup {[status |-> f, match_score |-> 0, recommendation |-> 0] : f \in ScoringFailures}

SocialFailures == {"http_error", "timeout", "unreachable", "unsuccessful"}

SocialAnswers ==
    {[status |-> "ok", presence |-> "80"], [status |-> "ok", presence |-> "0"]}
    \cup {[status |-> f, presence |-> "0"] : f \in SocialFailures}

\* the answers of the two services in one run; the social-evaluation service
\* is not reached when scoring fails
NoAnswer == [status |-> "none", presence |-> "0"]

\* the history store during a run: it works, save_search_result raises
\* before its INSERT is committed while reads still work, or every call on
\* the store raises
StoreAnswers == {"ok", "save_raises", "unavailable"}

Answers ==
    {<<so, fo, st>> : so \in {a \in ScoreAnswers : a.status = "ok"},
                      fo \in SocialAnswers, st \in StoreAnswers}
    \cup {<<so, NoAnswer, st>> : so \in {a \in ScoreAnswers : a.status # "ok"},
                                 st \in StoreAnswers}

\* what a handler did and returned: the calls it made in order, the kind of
\* result, the match score it returned (-1 for None), how the returned
\* result shows the social evaluation, and the arguments it saved with
Outcome(calls, kind, score, social, save) ==
    [calls |-> calls, kind |-> kind, score |-> score, social |-> social, save |-> save]

(***************************************************************************)
(* app_gdpr_compliant.py.  The handler is modelled for every form: the     *)
(* rank button is only enabled or disabled by validate_form_inputs on a    *)
(* change of a field, the handler itself makes the checks below.           *)
(***************************************************************************)
ContactAndProviderKeys ==
    {"email", "phone", "github", "linkedin", "portfolio", "facebook", "other"}

\* social_profiles of rank_cv_with_social_and_flowise: the stripped values
\* of the fields that are not blank
GdprSocialProfiles(req) ==
    {<<k, Strip(req[k])>> : k \in {f \in ContactAndProviderKeys : Strip(req[f]) # <<>>}}

\* payload = {"question": question} of evaluate_with_flowise_via_be; the
\* question text is built outside this code base
GdprFlowisePayload == {<<"question", <<<<"q">>>>>>}

\* evaluate_with_flowise_via_be: the evaluation, or the failure dict
evaluate_with_flowise_via_be(fo) ==
    IF fo.status = "ok"
    THEN {<<"social_presence_score", fo.presence>>}
    ELSE {<<"error", fo.status>>, <<"social_presence_score", "0">>}

\* the social step of rank_cv_with_social_and_flowise runs
GdprCallsSocial(req) == req.evaluate_social /\ GdprSocialProfiles(req) # {}

GdprResultRetriesScoring(req, so, fo, st) ==
    IF \/ Strip(req.candidate_name) = <<>>
       \/ Strip(req.cv_text) = <<>>
       \/ Strip(req.jd_text) = <<>>
    THEN Outcome(<<>>, "Rejected", -1, "none", <<>>)
    ELSE IF so.status # "ok"
    THEN Outcome(<<"score", "score">>, "ScoringFailed", -1, "none", <<>>)
    ELSE LET flowise_result == evaluate_with_flowise_via_be(fo)
             evaluated == GdprCallsSocial(req)
             succeeded == evaluated /\ ~HasKey(flowise_result, "error")
             social_presence_score == IF succeeded THEN fo.presence ELSE "0"
         IN  Outcome(IF evaluated THEN <<"score", "social", "save">>
                                  ELSE <<"score", "save">>,
                     IF st = "unavailable" THEN "Error" ELSE "Completed",
                     IF st = "unavailable" THEN -1 ELSE so.match_score,
                     IF ~evaluated \/ st = "unavailable" THEN "none"
                     ELSE IF succeeded THEN "ok" ELSE "failed",
                     <<[candidate_name |-> req.candidate_name,
                        match_score |-> so.match_score,
                        recommendation |-> so.recommendation,
                        social_profiles |-> GdprSocialProfiles(req),
                        flowise_response |-> {<<"presence_score", social_presence_score>>}]>>)

\* rank_cv_with_social_and_flowise(...): the save is inside its own try, the
\* format_search_history_display() that follows it is not
GdprResult(req, so, fo, st) ==
    IF \/ Strip(req.candidate_name) = <<>>
       \/ Strip(req.cv_text) = <<>>
       \/ Strip(req.jd_text) = <<>>
    THEN Outcome(<<>>, "Rejected", -1, "none", <<>>)
    ELSE IF so.status # "ok"
    THEN Outcome(<<"score">>, "ScoringFailed", -1, "none", <<>>)
    ELSE LET flowise_result == evaluate_with_flowise_via_be(fo)
             evaluated == GdprCallsSocial(req)
             succeeded == evaluated /\ ~HasKey(flowise_result, "error")
             social_presence_score == IF succeeded THEN fo.presence ELSE "0"
         IN  Outcome(IF evaluated THEN <<"score", "social", "save">>
                                  ELSE <<"score", "save">>,
                     IF st = "unavailable" THEN "Error" ELSE "Completed",
                     IF st = "unavailable" THEN -1 ELSE so.match_score,
                     IF ~evaluated \/ st = "unavailable" THEN "none"
                     ELSE IF succeeded THEN "ok" ELSE "failed",
                     <<[candidate_name |-> req.candidate_name,
                        match_score |-> so.match_score,
                        recommendation |-> so.recommendation,
                        social_profiles |-> GdprSocialProfiles(req),
                        flowise_response |-> {<<"presence_score", social_presence_score>>}]>>)

(***************************************************************************)
(* app_with_progress.py                                                    *)
(***************************************************************************)
Providers == {"github", "linkedin", "portfolio", "facebook", "other"}

\* min(num_links / 4, 1.0): the number of link types that gives the full score
MaxLinkTypes == 4

prepare_payloadUnclamped(req) ==
    LET social == [k \in Providers |-> IF req[k] # <<>> THEN <<req[k]>> ELSE <<>>]
        num_links == Cardinality({k \in Providers : social[k] # <<>>})
    IN  [candidate_name |-> IF req.candidate_name # <<>> THEN req.candidate_name
                            ELSE <<"U", "n", "k", "n", "o", "w", "n">>,
         candidate_email |-> req.email,
         candidate_phone |-> req.phone,
         cv_text |-> req.cv_text,
         jd_description |-> req.jd_text,
         social_media_profiles |-> social,
         presence_score |-> num_links,
         total_links |-> num_links,
         include_social_weighting |-> num_links > 0]

\* prepare_payload: name or 'Unknown', one list per provider, the number of
\* providers with a link and the presence score in quarters
prepare_payload(req) ==
    LET social == [k \in Providers |-> IF req[k] # <<>> THEN <<req[k]>> ELSE <<>>]
        num_links == Cardinality({k \in Providers : social[k] # <<>>})
    IN  [candidate_name |-> IF req.candidate_name # <<>> THEN req.candidate_name
                            ELSE <<"U", "n", "k", "n", "o", "w", "n">>,
         candidate_email |-> req.email,
         candidate_phone |-> req.phone,
         cv_text |-> req.cv_text,
         jd_description |-> req.jd_text,
         social_media_profiles |-> social,
         presence_score |-> Min(num_links, MaxLinkTypes),
         total_links |-> num_links,
         include_social_weighting |-> num_links > 0]

SubmitKeepsOldPayload(req, old) ==
    IF /\ validate_candidate_name(req.candidate_name)
       /\ validate_cv_jd(req.cv_text, req.jd_text)
       /\ validate_email(req.email)
       /\ validate_phone(req.phone)
    THEN <<prepare_payload(req)>>
    ELSE old

\* validate_and_submit: the value written to state_payload, {} when a check
\* fails and the payload otherwise
SubmitPayload(req, old) ==
    IF /\ validate_candidate_name(req.candidate_name)
       /\ validate_cv_jd(req.cv_text, req.jd_text)
       /\ validate_email(req.email)
       /\ validate_phone(req.phone)
    THEN <<prepare_payload(req)>>
    ELSE <<>>

\* x.strip() if x else None
StripOrNone(x) == IF x # <<>> THEN <<Strip(x)>> ELSE <<>>

\* (social_profiles.get(k, []) or [''])[0] or ''
FirstUrl(social_profiles, k) ==
    IF social_profiles[k] # <<>> THEN social_profiles[k][1] ELSE <<>>

\* the JSON body execute_ranking and call_flowise_evaluation send to the
\* social-evaluation service: every key is sent, with None (<<>>) or the
\* stripped string (<<s>>) as its value
FlowisePayload(payload) ==
    {<<"candidate_name", <<Strip(payload.candidate_name)>>>>,
     <<"candidate_email", StripOrNone(payload.candidate_email)>>,
     <<"candidate_phone", StripOrNone(payload.candidate_phone)>>,
     <<"cv_summary", <<<<"M">>>>>>}
    \cup {<<kk[2], StripOrNone(FirstUrl(payload.social_media_profiles, kk[1]))>> :
              kk \in {<<"github", "github_url">>, <<"linkedin", "linkedin_url">>,
                      <<"portfolio", "portfolio_url">>, <<"facebook", "facebook_url">>}}

call_flowise_evaluationUnmarked(candidate_name, fo) ==
    IF fo.status = "ok"
    THEN {<<"success", "true">>, <<"social_presence_score", fo.presence>>}
    ELSE {<<"success", "false">>}

\* call_flowise_evaluation: the dict it returns.  A 200 answer is returned
\* as the service sent it, {success, error} when the service reports a
\* failure; every other failure becomes {'error': ..., 'success': False}
call_flowise_evaluation(candidate_name, fo) ==
    IF candidate_name = <<>> \/ Strip(candidate_name) = <<>>
    THEN {<<"error", "name_required">>, <<"success", "false">>}
    ELSE IF fo.status = "ok"
    THEN {<<"success", "true">>, <<"social_presence_score", fo.presence>>}
    ELSE {<<"error", fo.status>>, <<"success", "false">>}

\* recommendation[:200] of execute_ranking
RecommendationLimit == 200

ExecResultSocialRegardless(payload_dict, so, fo) ==
    IF payload_dict = <<>>
    THEN Outcome(<<>>, "Rejected", -1, "none", <<>>)
    ELSE LET payload == payload_dict[1]
             failed == so.status # "ok"
             evaluated == payload.candidate_name # <<>>
             flowise_response == call_flowise_evaluation(payload.candidate_name, fo)
             match_score == IF failed THEN 0 ELSE so.match_score
         IN  Outcome(<<"score">> \o (IF evaluated THEN <<"social">> ELSE <<>>) \o <<"save">>,
                     IF failed THEN "ScoringFailed" ELSE "Completed",
                     IF failed THEN -1 ELSE so.match_score,
                     IF HasKey(flowise_response, "error") THEN "failed" ELSE "ok",
                     <<[candidate_name |-> payload.candidate_name,
                        match_score |-> match_score,
                        recommendation |-> 17,
                        social_profiles |-> {},
                        flowise_response |-> flowise_response]>>)

\* execute_ranking(payload_dict)
ExecResult(payload_dict, so, fo) ==
    IF payload_dict = <<>>
    THEN Outcome(<<>>, "Rejected", -1, "none", <<>>)
    ELSE LET payload == payload_dict[1]
             failed == so.status # "ok"
             evaluated == ~failed /\ payload.candidate_name # <<>>
             called == evaluated /\ Strip(payload.candidate_name) # <<>>
             flowise_response ==
                 IF evaluated THEN call_flowise_evaluation(payload.candidate_name, fo)
                 ELSE {}
             match_score == IF failed THEN 0 ELSE so.match_score
             recommendation ==
                 IF ~failed /\ so.recommendation > 0 THEN so.recommendation
                 ELSE IF match_score >= 10 THEN 18 ELSE 17
         IN  Outcome(<<"score">> \o (IF called THEN <<"social">> ELSE <<>>) \o <<"save">>,
                     IF failed THEN "ScoringFailed" ELSE "Completed",
                     IF failed THEN -1 ELSE so.match_score,
                     IF ~evaluated THEN "none"
                     ELSE IF HasKey(flowise_response, "error") THEN "failed" ELSE "ok",
                     <<[candidate_name |-> payload.candidate_name,
                        match_score |-> match_score,
                        recommendation |-> Min(recommendation, RecommendationLimit),
                        social_profiles |-> {},
                        flowise_response |-> flowise_response]>>)

(***************************************************************************)
(* The explanation views.  top_features is the list of [name, value] items  *)
(* of shap_analysis in the scoring answer; a shown line is the feature, the *)
(* direction label and the number printed.                                 *)
(***************************************************************************)
\* abs()
Abs(x) == IF x < 0 THEN 0 - x ELSE x

\* top_features[:12] of format_results
DetailedK == 12

\* top_features[:5] of rank_cv_with_social_and_flowise
BriefK == 5

\* format_results: one line per item of top_features[:12], in the order of
\* the list, labelled Positive when the value is above 0 and Negative
\* otherwise, with the absolute value
FormatResultsFeatures(top_features) ==
    [i \in 1..Min(Len(top_features), DetailedK) |->
        [feature |-> top_features[i][1],
         direction |-> IF top_features[i][2] > 0 THEN "Positive" ELSE "Negative",
         contribution |-> Abs(top_features[i][2])]]

\* rank_cv_with_social_and_flowise: one line "name: value" per item of
\* top_features[:5], in the order of the list, without a label
GdprFeatureLines(top_features) ==
    [i \in 1..Min(Len(top_features), BriefK) |->
        [feature |-> top_features[i][1],
         direction |-> "",
         contribution |-> top_features[i][2]]]

\* the view a handler made of top_features
Explained(view, top_features, lines) ==
    [op |-> "explain", id |-> 0, ret |-> TRUE, rows |-> lines, existed |-> FALSE,
     msg |-> view, features |-> top_features]

\* format_results(response) of the progress app
format_results(top_features) ==
    /\ last = NoResult
    /\ last' = Explained("detailed", top_features, FormatResultsFeatures(top_features))
    /\ UNCHANGED <<db, nextId, clock, pc, total, rid>>
    /\ UNCHANGED pipeVars

\* the explanation text of rank_cv_with_social_and_flowise
GdprExplanation(top_features) ==
    /\ last = NoResult
    /\ last' = Explained("brief", top_features, GdprFeatureLines(top_features))
    /\ UNCHANGED <<db, nextId, clock, pc, total, rid>>
    /\ UNCHANGED pipeVars

(***************************************************************************)
(* A pipeline run: the handler of one app, with save_search_result inside. *)
(***************************************************************************)
\* pipeline runs the model follows
MaxRuns == 2

NoRun ==
    [no |-> 0, app |-> "none", req |-> BaseRequest, calls |-> <<>>, kind |-> "none",
     score |-> -1, social |-> "none", score_answer |-> "none",
     social_answer |-> "none", social_request |-> {}, social_result |-> {},
     save_answer |-> "none", saved |-> 0]

\* save_search_result run to its end by one caller: the rows it may leave
SaveAll(d, id, ts, args) ==
    LET inserted == d \cup {InsertRow(id, ts, args)}
        total_records == CountRows(inserted)
    IN  IF total_records > MAX_RECORDS
        THEN {inserted \ S : S \in OldestSets(inserted, total_records - MAX_RECORDS)}
        ELSE {inserted}

PersistTwice(out, st) ==
    IF out.save # <<>> /\ st = "ok"
    THEN /\ \E d \in SaveAll(db, nextId, clock, out.save[1]) :
                db' \in SaveAll(d, nextId + 1, clock, out.save[1])
         /\ nextId' = nextId + 2
         /\ last' = Result("save", nextId + 1, TRUE, <<>>, FALSE, "")
    ELSE UNCHANGED <<db, nextId, last>>

\* the store after a handler that returned out: saved when out.save is set
\* and save_search_result did not raise
Persist(out, st) ==
    IF out.save # <<>> /\ st = "ok"
    THEN /\ db' \in SaveAll(db, nextId, clock, out.save[1])
         /\ nextId' = nextId + 1
         /\ last' = Result("save", nextId, TRUE, <<>>, FALSE, "")
    ELSE UNCHANGED <<db, nextId, last>>

Finished(no, app, req, so, fo, st, out) ==
    [no |-> no, app |-> app, req |-> req, calls |-> out.calls, kind |-> out.kind,
     score |-> out.score, social |-> out.social,
     score_answer |-> IF "score" \in Range(out.calls) THEN so.status ELSE "none",
     social_answer |-> IF "social" \in Range(out.calls) THEN fo.status ELSE "none",
     social_request |-> IF "social" \notin Range(out.calls) THEN {}
                        ELSE IF app = "gdpr" THEN GdprFlowisePayload
                        ELSE FlowisePayload(state_payload[1]),
     social_result |-> IF "social" \notin Range(out.calls) THEN {}
                       ELSE IF app = "gdpr" THEN evaluate_with_flowise_via_be(fo)
                       ELSE call_flowise_evaluation(state_payload[1].candidate_name, fo),
     save_answer |-> IF "save" \in Range(out.calls) THEN st ELSE "none",
     saved |-> IF out.save # <<>> /\ st = "ok" THEN nextId ELSE 0]

\* rank_button.click, first step of rank_cv_with_social_and_flowise: the
\* checks at its top.  A form that fails one is answered at once, any other
\* form goes on to the calls.
rank_button_click(req) ==
    /\ ppc = "idle"
    /\ run.no < MaxRuns
    /\ run.app \in {"none", "gdpr"}
    /\ LET out == GdprResult(req, NoAnswer, NoAnswer, "ok")
       IN  IF out.kind = "Rejected"
           THEN /\ run' = Finished(run.no + 1, "gdpr", req, NoAnswer, NoAnswer, "ok", out)
                /\ ppc' = "idle"
           ELSE /\ run' = [NoRun EXCEPT !.no = run.no + 1, !.app = "gdpr", !.req = req,
                                        !.kind = "pending"]
                /\ ppc' = "validated"
    /\ UNCHANGED storeVars
    /\ UNCHANGED state_payload

\* rank_cv_with_social_and_flowise after its checks: the calls, the save and
\* the result
rank_cv_with_social_and_flowise(so, fo, st) ==
    /\ ppc = "validated"
    /\ LET out == GdprResult(run.req, so, fo, st)
       IN  /\ Persist(out, st)
           /\ run' = Finished(run.no, "gdpr", run.req, so, fo, st, out)
    /\ ppc' = "idle"
    /\ UNCHANGED <<clock, pc, total, rid, state_payload>>

\* submit_btn.click: validate_and_submit, which writes state_payload
validate_and_submit(req) ==
    /\ ppc = "idle"
    /\ run.no < MaxRuns
    /\ run.app \in {"none", "progress"}
    /\ state_payload' = SubmitPayload(req, state_payload)
    /\ run' = [NoRun EXCEPT !.no = run.no + 1, !.app = "progress", !.req = req,
                            !.kind = "pending"]
    /\ ppc' = "submitted"
    /\ UNCHANGED storeVars

\* .then(execute_ranking, inputs=[state_payload])
execute_ranking(so, fo, st) ==
    /\ ppc = "submitted"
    /\ LET out == ExecResult(state_payload, so, fo)
       IN  /\ Persist(out, st)
           /\ run' = Finished(run.no, "progress", run.req, so, fo, st, out)
    /\ ppc' = "idle"
    /\ UNCHANGED <<clock, pc, total, rid, state_payload>>

PipeInit ==
    /\ ppc = "idle"
    /\ state_payload = <<>>
    /\ run = NoRun

StoreInit ==
    /\ db = {}
    /\ nextId = 1
    /\ clock = 1
    /\ pc = [p \in Procs |-> "idle"]
    /\ total = [p \in Procs |-> 0]
    /\ rid = [p \in Procs |-> 0]
    /\ last = NoResult

Init == StoreInit /\ PipeInit

\* The database file outlives the process: at start-up the table may hold
\* the rows of earlier runs, the most recent k of ids 1..MAX_RECORDS here.
PersistedStores ==
    {{InsertRow(id, 1, a) : id \in (MAX_RECORDS - k + 1)..MAX_RECORDS, a \in SaveArgs} :
        k \in 0..MAX_RECORDS}

InitPersisted ==
    /\ db \in PersistedStores
    /\ nextId = MAX_RECORDS + 1
    /\ clock = 1
    /\ pc = [p \in Procs |-> "idle"]
    /\ total = [p \in Procs |-> 0]
    /\ rid = [p \in Procs |-> 0]
    /\ last = NoResult
    /\ PipeInit

(***************************************************************************)
(* Spec: the sessions call save_search_result concurrently, each on its own *)
(* connection, on a store that holds rows of earlier runs; every committed *)
(* statement is one step.                                                  *)
(***************************************************************************)
Next ==
    \/ \E p \in Procs : \E a \in SaveArgs :
          nextId <= MAX_RECORDS + NumProcs /\ SaveInsert(p, a)
    \/ \E p \in Procs : SaveCount(p)
    \/ \E p \in Procs : SaveEvict(p)
    \/ Tick

Spec == InitPersisted /\ [][Next]_vars

(***************************************************************************)
(* SpecSeq: one session, the operations run one after another.             *)
(***************************************************************************)
Idle == \A p \in Procs : pc[p] = "idle"

\* the last operation was a query: it left the store as it found it, so a
\* query issued right after it answers as it would have answered in its place
AfterQuery == last.op \in {"list", "get", "export"}

NextSeq ==
    \/ \E a \in SaveArgs : nextId <= MaxId /\ SaveInsert(1, a)
    \/ SaveCount(1)
    \/ SaveEvict(1)
    \/ Idle /\ ~AfterQuery /\ get_search_history
    \/ Idle /\ ~AfterQuery /\ \E id \in 0..MaxId : get_search_result_by_id(id)
    \/ Idle /\ clear_all_search_history
    \/ Idle /\ \E id \in 0..MaxId : delete_search_record_action(id)
    \/ Idle /\ ~AfterQuery /\ \E full_response \in {{}, {<<"match_score", "72">>}} :
                \E writable \in IF full_response = {} THEN {Formats} ELSE SUBSET Formats :
                    export_results_action(full_response, writable)
    \/ Tick

SpecSeq == Init /\ [][NextSeq]_vars
(***************************************************************************)
(* SpecCleanup: one session saves and runs cleanup_old_records on a store  *)
(* that may hold more than MAX_RECORDS rows at start-up: the database file *)
(* outlives the process and MAX_SEARCH_HISTORY may have been larger when   *)
(* its rows were written.                                                  *)
(***************************************************************************)
\* rows above MAX_RECORDS the store may hold at start-up
MaxExtra == 2

\* ids 1..n, written in this order: the timestamps do not go back
LeftStores ==
    UNION {{{InsertRow(id, ts[id], a) : id \in 1..n} :
                ts \in {t \in [1..n -> 1..MaxClock] :
                           \A i \in 1..n : \A j \in 1..n : i < j => t[i] <= t[j]},
                a \in SaveArgs} :
            n \in 0..(MAX_RECORDS + MaxExtra)}

InitCleanup ==
    /\ db \in LeftStores
    /\ nextId = Cardinality(db) + 1
    /\ clock \in {c \in 1..MaxClock : \A r \in db : r.timestamp <= c}
    /\ pc = [p \in Procs |-> "idle"]
    /\ total = [p \in Procs |-> 0]
    /\ rid = [p \in Procs |-> 0]
    /\ last = NoResult
    /\ PipeInit

NextCleanup ==
    \/ \E a \in SaveArgs : nextId <= MAX_RECORDS + MaxExtra + 1 /\ SaveInsert(1, a)
    \/ SaveCount(1)
    \/ SaveEvict(1)
    \/ Idle /\ cleanup_old_records
    \/ Tick

SpecCleanup == InitCleanup /\ [][NextCleanup]_vars

(***************************************************************************)
(* SpecPipe: one recruiter session runs evaluations one after another, in  *)
(* the app it was opened in (each app is a server of its own).             *)
(***************************************************************************)
\* the answers a run of the GDPR app can meet: only the services the handler
\* reaches for req answer
GdprAnswers(req) ==
    IF Strip(req.candidate_name) = <<>> \/ Strip(req.cv_text) = <<>>
          \/ Strip(req.jd_text) = <<>>
    THEN {<<so, NoAnswer, "ok">> : so \in {a \in ScoreAnswers : a.status = "ok"}}
    ELSE {a \in Answers :
            /\ a[1].status # "ok" => a[3] = "ok"
            /\ (a[1].status = "ok" /\ ~GdprCallsSocial(req)) => a[2].presence = "0"}

\* the answers a run of execute_ranking can meet
ExecAnswers(payload_dict) ==
    IF payload_dict = <<>>
    THEN {<<so, NoAnswer, "ok">> : so \in {a \in ScoreAnswers : a.status = "ok"}}
    ELSE Answers

NextPipe ==
    \/ \E req \in Requests : rank_button_click(req)
    \/ \E a \in GdprAnswers(run.req) : rank_cv_with_social_and_flowise(a[1], a[2], a[3])
    \/ \E req \in {r \in Requests : r.evaluate_social} : validate_and_submit(req)
    \/ \E a \in ExecAnswers(state_payload) : execute_ranking(a[1], a[2], a[3])

SpecPipe == Init /\ [][NextPipe]_vars

(***************************************************************************)
(* SpecPayload: validate_and_submit builds the payload of one form; the    *)
(* forms are valid and carry, per provider, no value, a link or a blank.   *)
(***************************************************************************)
LinkRequests ==
    {[BaseRequest EXCEPT !.github = l[1], !.linkedin = l[2], !.portfolio = l[3],
                         !.facebook = l[4], !.other = l[5]] :
        l \in [1..5 -> {<<>>, Url, <<" ">>}]}

NextPayload == \E req \in LinkRequests : validate_and_submit(req)

SpecPayload == Init /\ [][NextPayload]_vars

(***************************************************************************)
(* SpecExplain: one scoring answer is shown.  Its features are named by    *)
(* their position in the list the service sent.                            *)
(***************************************************************************)
\* longest list of which every filling is followed
MaxFeatures == 6

Contributions == {-2, 0, 1}

\* lists one longer than the detailed view shows, the strongest feature at
\* position j
LongLists ==
    {[i \in 1..(DetailedK + 1) |-> IF i = j THEN 2 ELSE 1] : j \in 1..(DetailedK + 1)}

FeatureLists ==
    {[i \in 1..Len(v) |-> <<i, v[i]>>] :
        v \in UNION {[1..n -> Contributions] : n \in 0..MaxFeatures} \cup LongLists}

NextExplain ==
    \/ \E top_features \in FeatureLists : format_results(top_features)
    \/ \E top_features \in FeatureLists : GdprExplanation(top_features)

SpecExplain == Init /\ [][NextExplain]_vars

(***************************************************************************)
(* Orderings the claims speak of.                                          *)
(***************************************************************************)
\* r is more recent than q by (timestamp, id)
Newer(r, q) ==
    \/ r.timestamp > q.timestamp
    \/ r.timestamp = q.timestamp /\ r.id > q.id

\* the k most recent rows of d by (timestamp, id)
MostRecent(d, k) == {r \in d : Cardinality({q \in d : Newer(q, r)}) < k}

\* the ids of d, most recent first by (timestamp, id)
RECURSIVE MostRecentFirst(_)
MostRecentFirst(d) ==
    IF d = {} THEN <<>>
    ELSE LET r == CHOOSE x \in d : \A q \in d \ {x} : Newer(x, q)
         IN <<r.id>> \o MostRecentFirst(d \ {r})

(***************************************************************************)
(* Claims about the history store.                                         *)
(***************************************************************************)

\* C1: when save, delete and purge run one after another, the store holds at
\* most MAX_RECORDS rows whenever no call is in progress, in particular when
\* save_search_result has returned; inside a save it holds at most one more.
C1_CapacityAfterEveryOperation ==
    /\ pc[1] = "idle" => Cardinality(db) <= MAX_RECORDS
    /\ Cardinality(db) <= MAX_RECORDS + 1

\* the save that inserted row MAX_RECORDS + 1 has returned and the store is
\* full
C1_Witness ==
    /\ last.op = "save"
    /\ last.id = MAX_RECORDS + 1
    /\ Cardinality(db) = MAX_RECORDS

\* C2: under every interleaving of concurrent save_search_result calls, once
\* all of them have returned the store holds at most MAX_RECORDS rows.
C2_ConcurrentSavesNeverExceedCapacity ==
    (\A p \in Procs : pc[p] = "idle" /\ total[p] = 0) => Cardinality(db) <= MAX_RECORDS

\* two saves overlapped on a full store and both have returned: each
\* counted MAX_RECORDS + 2 rows and deleted two, so MAX_RECORDS - 2 are left
\* (a store that started with fewer rows keeps only ids above MAX_RECORDS - 2)
C2_Witness ==
    /\ \A p \in Procs : pc[p] = "idle"
    /\ nextId = MAX_RECORDS + 3
    /\ Cardinality(db) = MAX_RECORDS - 2
    /\ \E r \in db : r.id <= MAX_RECORDS - 2

C4_ListMostRecentFirst ==
    last.op = "list" =>
        /\ Len(last.rows) <= MAX_RECORDS
        /\ last.rows = SubSeq(MostRecentFirst(db), 1, Min(MAX_RECORDS, Cardinality(db)))

\* C5: deleting an id that is not stored returns False and leaves the rows
\* unchanged; True is returned only when the row existed.
C5_DeleteOfMissingIdReturnsFalse ==
    [][(last'.op = "delete" /\ last'.msg # "invalid" /\ ~last'.existed)
          => (last'.ret = FALSE /\ db' = db)]_storeVars
(***************************************************************************)
(* Claims about the evaluation pipeline.                                   *)
(***************************************************************************)
\* C6: a run whose scoring call failed never invokes save and leaves the
\* history store unchanged.
C6_NoSaveWhenScoringFails ==
    [][(run' # run /\ run'.score_answer \in ScoringFailures)
          => ("save" \notin Range(run'.calls) /\ db' = db)]_vars

\* the flowise_response column says that the evaluation failed
MarkedFailed(column) ==
    /\ column # <<>>
    /\ HasKey(column[1], "error") \/ <<"success", "false">> \in column[1]

\* C7: when scoring succeeds and the social evaluation fails (the history
\* store working), the run
\* completes with the match score of the scoring call, save is invoked, and
\* the social result is marked as failed in the returned result and in the
\* persisted row.
C7_SocialFailureDegradesOnly ==
    (run.score_answer = "ok" /\ run.social_answer \in SocialFailures
     /\ run.save_answer = "ok") =>
        /\ run.kind = "Completed"
        /\ \E so \in ScoreAnswers : so.status = "ok" /\ run.score = so.match_score
        /\ "save" \in Range(run.calls)
        /\ run.social = "failed"
        /\ \A r \in db : r.id = run.saved => MarkedFailed(r.flowise_response)

\* C8: a request whose candidate name is empty or blank is rejected without
\* a scoring call, a social-evaluation call or a save, in the progress app
\* also by the execute_ranking step chained after validate_and_submit.
C8_BlankNameMakesNoCall ==
    /\ [](run.no > 0 /\ Strip(run.req.candidate_name) = <<>>
            => /\ run.calls = <<>>
               /\ run.saved = 0
               /\ run.kind \in {"pending", "Rejected"})
    /\ [][run'.no > 0 /\ Strip(run'.req.candidate_name) = <<>> /\ run' # run
            => db' = db /\ nextId' = nextId]_vars

\* execute_ranking has answered a blank-name submission that followed a run
\* of the progress app which had stored a payload and saved a row
C8_Witness ==
    /\ run.no = 2
    /\ run.app = "progress"
    /\ ppc = "idle"
    /\ run.req.candidate_name = <<" ">>
    /\ run.kind = "Rejected"
    /\ \E r \in db : r.flowise_response # <<>> /\ HasKey(r.flowise_response[1], "success")

\* the checks of step 1: name of 2+ characters, CV and job description of
\* the minimum length, e-mail and phone well-formed when given
FailsValidation(req) ==
    \/ ~validate_candidate_name(req.candidate_name)
    \/ ~validate_cv_jd(req.cv_text, req.jd_text)
    \/ ~validate_email(req.email)
    \/ ~validate_phone(req.phone)

\* C9: a request that fails any validation check is rejected before any
\* network call and without saving.
C9_InvalidRequestMakesNoCall ==
    (run.no > 0 /\ FailsValidation(run.req)) =>
        /\ run.calls = <<>>
        /\ run.kind \in {"pending", "Rejected"}

\* the providers for which the request carries a link
ProviderLinks(req) == {k \in Providers : Strip(req[k]) # <<>>}

\* C10: after a successful score the social-evaluation service is called
\* exactly when evaluate_social is set and a provider link was supplied.
C10_SocialCalledIffRequestedAndLinked ==
    run.score_answer = "ok" =>
        ("social" \in Range(run.calls)
            <=> (run.req.evaluate_social /\ ProviderLinks(run.req) # {}))

\* C11: a run whose scoring call succeeded, whose social step was skipped and
\* whose save did not fail persists exactly one row, the number of rows grows by one below capacity,
\* and the flowise_response column of that row is NULL.
C11_SkippedSocialPersistsNull ==
    [][(run' # run /\ run'.score_answer = "ok" /\ "social" \notin Range(run'.calls)
           /\ run'.save_answer = "ok")
          => /\ nextId' = nextId + 1
             /\ run'.saved = nextId
             /\ Cardinality(db) < MAX_RECORDS => Cardinality(db') = Cardinality(db) + 1
             /\ \A r \in db' : r.id = run'.saved => r.flowise_response = <<>>]_vars

\* position of the first call of a kind in a run, 0 when it was not made
CallAt(calls, kind) ==
    IF kind \in Range(calls) THEN CHOOSE i \in 1..Len(calls) : calls[i] = kind ELSE 0

\* C12: in a run the social-evaluation call comes after the scoring call and
\* only when the scoring call succeeded; the save comes last, after the
\* scoring call and after the social-evaluation call when one was made.
C12_CallsAreOrdered ==
    LET score == CallAt(run.calls, "score")
        social == CallAt(run.calls, "social")
        save == CallAt(run.calls, "save")
    IN  /\ social > 0 => (score > 0 /\ score < social /\ run.score_answer = "ok")
        /\ save > 0 => (save = Len(run.calls) /\ score > 0 /\ score < save /\ social < save)
        /\ run.score_answer \in ScoringFailures => social = 0

\* the second run was one of the GDPR app in which the scoring call, then a
\* social-evaluation call that timed out, then the save were made
C12_Witness ==
    /\ run.no = 2
    /\ run.app = "gdpr"
    /\ run.calls = <<"score", "social", "save">>
    /\ run.social_answer = "timeout"
    /\ run.saved = 2

\* C13: when the scoring call succeeded and the history store failed (the
\* save raised, or the store was unavailable), the run still returns the
\* completed result with the match score of the scoring call.
C13_StoreFailureIsNonFatal ==
    (run.score_answer = "ok" /\ run.save_answer \in {"save_raises", "unavailable"}) =>
        /\ run.kind = "Completed"
        /\ \E so \in ScoreAnswers : so.status = "ok" /\ run.score = so.match_score

\* C14: the social-profile mapping built for a request holds no empty value:
\* no provider is mapped to an empty or blank string or to an empty list,
\* in the mapping the GDPR app saves and in the one of the progress app's
\* payload.
C14_SocialMappingHasNoEmptyValue ==
    /\ \A r \in db : \A kv \in r.social_profiles : Strip(kv[2]) # <<>>
    /\ state_payload # <<>> =>
          \A k \in DOMAIN state_payload[1].social_media_profiles :
              LET urls == state_payload[1].social_media_profiles[k]
              IN  urls # <<>> /\ \A i \in 1..Len(urls) : Strip(urls[i]) # <<>>

\* C15: every field of the request sent to the social-evaluation service has a
\* value: no key is sent with None or with an empty string.
C15_SocialRequestOmitsEmptyFields ==
    \A kv \in run.social_request : kv[2] # <<>> /\ kv[2][1] # <<>>

C17_IdsStrictlyIncrease ==
    /\ [](/\ \A r \in db : r.id < nextId
          /\ last.op = "save" => last.id < nextId)
    /\ [][/\ nextId' >= nextId
          /\ (pc[1] = "idle" /\ pc'[1] = "inserted") =>
                /\ rid'[1] >= nextId
                /\ nextId' > rid'[1]
                /\ \A r \in db' \ db : r.id = rid'[1]]_storeVars

\* a save returned id 3 although only its own row is stored: the rows with
\* ids 1 and 2 were deleted or purged before
C17_Witness ==
    /\ last.op = "save"
    /\ last.id = 3
    /\ Ids(db) = {3}

\* the record a save with arguments a, stored as row r, was given
SavedAs(r, a) ==
    [id |-> r.id, timestamp |-> r.timestamp,
     candidate_name |-> a.candidate_name,
     match_score |-> a.match_score,
     recommendation |-> a.recommendation,
     social_profiles |-> a.social_profiles,
     flowise_response |-> a.flowise_response]

\* C18: a record is Active or Deleted.  get returns an Active record with
\* the values it was saved with and NotFound for any other id, list shows
\* Active records only; no step changes a stored row; a row leaves the store
\* on delete and purge, and a row that enters the store has a new id, so a
\* record that was deleted, evicted or purged never comes back.
C18_RecordsAreActiveOrDeleted ==
    /\ [](/\ last.op = "get" =>
                IF last.id \in Ids(db)
                THEN /\ last.ret
                     /\ \E r \in db : \E a \in SaveArgs :
                           /\ r.id = last.id
                           /\ r = InsertRow(r.id, r.timestamp, a)
                           /\ last.rows = <<SavedAs(r, a)>>
                ELSE ~last.ret /\ last.rows = <<>>
          /\ last.op = "list" => Range(last.rows) \subseteq Ids(db))
    /\ [][/\ \A r \in db' : r.id \in Ids(db) => r \in db
          /\ \A r \in db' \ db : r.id >= nextId /\ nextId' > r.id
          /\ last'.op = "delete" /\ last'.msg # "invalid" => last'.id \notin Ids(db')
          /\ last'.op = "clear" => db' = {}]_storeVars

\* get answered NotFound for id 1 after six saves: the row was evicted or
\* deleted while later records are stored
C18_Witness ==
    /\ last.op = "get"
    /\ last.id = 1
    /\ ~last.ret
    /\ nextId = MAX_RECORDS + 2
    /\ Cardinality(db) = MAX_RECORDS

\* C19: purge removes every record: when clear_all_search_history returns
\* the store is empty, a list on the empty store returns no record, and a
\* save on the empty store returns its id and leaves exactly its one record.
C19_PurgeEmptiesTheStore ==
    /\ [](/\ last.op = "clear" => db = {}
          /\ (last.op = "list" /\ db = {}) => last.rows = <<>>)
    /\ [][/\ (db = {} /\ pc[1] = "idle" /\ pc'[1] = "inserted") => Cardinality(db') = 1
          /\ (pc[1] = "counted" /\ total[1] = 1 /\ pc'[1] = "idle") =>
                /\ last'.op = "save" /\ last'.ret
                /\ Ids(db') = {last'.id}]_storeVars

\* clear_all_search_history has just returned on a store that had been
\* filled to capacity
C19_Witness ==
    /\ last.op = "clear"
    /\ nextId = MAX_RECORDS + 1
    /\ db = {}

\* C20: a failing export is never reported as success: an export function
\* returns None instead of a path for a file that was not written, and
\* export_results_action returns the success message only when the JSON, the
\* HTML and the CSV file were all written.
C20_FailedExportIsNotReportedAsSuccess ==
    last.op = "export" =>
        /\ last.rows # <<>> =>
              \A i \in 1..3 :
                  LET fmt == <<"json", "html", "csv">>[i]
                  IN  last.rows[i] = IF fmt \in last.written THEN <<fmt>> ELSE <<>>
        /\ last.msg = "success" <=> last.written = Formats
        /\ last.ret <=> last.msg = "success"

\* an export in which the HTML file could not be written
C20_Witness ==
    /\ last.op = "export"
    /\ last.written = {"json", "csv"}
    /\ last.msg = "partial"
    /\ last.rows = <<<<"json">>, <<>>, <<"csv">>>>

\* number of calls of a kind a run made
CallCount(calls, kind) == Cardinality({i \in 1..Len(calls) : calls[i] = kind})

\* C21: a run calls the scoring service at most once; a run whose scoring
\* call failed returns the scoring failure, without a match score, without a
\* second scoring call and without a social-evaluation call.
C21_ScoringIsNotRetried ==
    /\ CallCount(run.calls, "score") <= 1
    /\ run.score_answer \in ScoringFailures =>
          /\ run.kind = "ScoringFailed"
          /\ run.score = -1
          /\ CallCount(run.calls, "score") = 1
          /\ "social" \notin Range(run.calls)

\* the second run was one of the GDPR app whose only call was a scoring call
\* that timed out, after a run that had completed and saved
C21_Witness ==
    /\ run.no = 2
    /\ run.app = "gdpr"
    /\ run.score_answer = "timeout"
    /\ run.calls = <<"score">>
    /\ run.req.evaluate_social
    /\ db # {}

\* C22: a run that has returned has exactly one of three outcomes: Rejected
\* when no call was made, ScoringFailed when the scoring call failed,
\* Completed (with the match score) when the scoring call succeeded.
C22_RunEndsInOneOfThreeOutcomes ==
    (run.no > 0 /\ ppc = "idle") =>
        /\ run.kind \in {"Rejected", "ScoringFailed", "Completed"}
        /\ run.kind = "Rejected" <=> run.score_answer = "none"
        /\ run.kind = "ScoringFailed" <=> run.score_answer \in ScoringFailures
        /\ run.kind = "Completed" <=> run.score_answer = "ok"

\* C23: eviction removes no more rows than needed: the DELETE that ends a
\* save never takes the store below MAX_RECORDS rows (it leaves exactly
\* MAX_RECORDS rows when the store held more, and every row otherwise), under
\* every interleaving of concurrent saves.
C23_EvictionNeverGoesBelowCapacity ==
    [][\A p \in Procs :
          (pc[p] = "counted" /\ pc'[p] = "idle") =>
              IF Cardinality(db) > MAX_RECORDS
              THEN Cardinality(db') >= MAX_RECORDS
              ELSE db' = db]_storeVars

(***************************************************************************)
(* Claims about the payload and the views.                                 *)
(***************************************************************************)
\* the providers for which a form carries a non-empty value
LinkedProviders(req) == {k \in Providers : req[k] # <<>>}

\* C24: the presence score of a payload is num_links / MaxLinkTypes clamped
\* to [0, 1] (kept in units of 1 / MaxLinkTypes), num_links being the number
\* of providers with a non-empty value: 0 without a link, never above 1, and
\* 1 only when MaxLinkTypes or more link types are supplied.
C24_PresenceScoreIsClampedRatio ==
    state_payload # <<>> =>
        LET num_links == Cardinality(LinkedProviders(run.req))
            presence_score == state_payload[1].presence_score
        IN  /\ presence_score = Min(num_links, MaxLinkTypes)
            /\ presence_score \in 0..MaxLinkTypes
            /\ num_links = 0 => presence_score = 0
            /\ presence_score = MaxLinkTypes => num_links >= MaxLinkTypes
            /\ state_payload[1].total_links = num_links

\* the payload of a form with a link for each of the five providers: the
\* ratio 5/4 is clamped to 1
C24_Witness ==
    /\ state_payload # <<>>
    /\ LinkedProviders(run.req) = Providers
    /\ \A k \in Providers : run.req[k] = Url
    /\ state_payload[1].presence_score = MaxLinkTypes

\* C25: a view shows the K features of the scoring answer with the largest
\* absolute contribution (K = BriefK in the brief view, DetailedK in the
\* detailed one), largest first, whatever the order of the answer, and
\* labels each by the sign of its contribution.
C25_ShownFeaturesAreTopKByMagnitude ==
    last.op = "explain" =>
        LET K == IF last.msg = "brief" THEN BriefK ELSE DetailedK
            shown == last.rows
            top_features == last.features
            names == {shown[i].feature : i \in 1..Len(shown)}
        IN  /\ Len(shown) = Min(K, Len(top_features))
            /\ \A i, j \in 1..Len(shown) :
                  i < j => Abs(shown[i].contribution) >= Abs(shown[j].contribution)
            /\ \A i \in 1..Len(shown) : \A f \in 1..Len(top_features) :
                  top_features[f][1] \notin names =>
                      Abs(top_features[f][2]) <= Abs(shown[i].contribution)
            /\ \A i \in 1..Len(shown) : \A f \in 1..Len(top_features) :
                  top_features[f][1] = shown[i].feature =>
                      /\ top_features[f][2] > 0 => shown[i].direction = "Positive"
                      /\ top_features[f][2] < 0 => shown[i].direction = "Negative"

\* C26: the recommendation of every stored row is at most
\* RecommendationLimit characters long, whatever text the scoring service
\* returned.
C26_StoredRecommendationIsTruncated ==
    \A r \in db : r.recommendation <= RecommendationLimit

\* C27: a save does not evict its own row: when save_search_result has
\* returned and no other operation has run since, the id it returned is
\* stored, get finds it and list shows it first, also when older rows carry
\* the timestamp of the new one.
C27_SaveKeepsItsOwnRecord ==
    /\ [](last.op = "save" => last.id \in Ids(db))
    /\ [][/\ (last.op = "save" /\ last'.op = "get" /\ last'.id = last.id) => last'.ret
          /\ (last.op = "save" /\ last'.op = "list") =>
                (last'.rows # <<>> /\ last'.rows[1] = last.id)]_storeVars

\* C28: a run calls save at most once and the social-evaluation service at
\* most once; a run adds at most one row to the store and uses at most one
\* id, and a rejected run adds none.
C28_RunSavesAtMostOnce ==
    /\ [](/\ CallCount(run.calls, "save") <= 1
          /\ CallCount(run.calls, "social") <= 1)
    /\ [][run' # run =>
            /\ Cardinality(db') <= Cardinality(db) + 1
            /\ nextId' <= nextId + 1
            /\ Cardinality(db' \ db) <= 1
            /\ run'.kind = "Rejected" => (db' = db /\ nextId' = nextId)]_vars

\* the second run of the progress app called the social-evaluation service
\* and saved: the store holds the rows of both runs
C28_Witness ==
    /\ run.no = 2
    /\ run.app = "progress"
    /\ run.calls = <<"score", "social", "save">>
    /\ run.saved = 2
    /\ Cardinality(db) = 2

\* a list without the id
Without(seq, id) == SelectSeq(seq, LAMBDA x : x # id)

\* C29: deleting a stored id removes exactly its row: the count goes down by
\* one, every other row stays as it was and the id counter is untouched; the
\* list shown before the delete, with the id taken out, is a list the store
\* may return after it, so the other records keep their relative order.
C29_DeleteRemovesExactlyOneRecord ==
    [][(last' # last /\ last'.op = "delete" /\ last'.existed) =>
          /\ last'.ret
          /\ Cardinality(db') = Cardinality(db) - 1
          /\ db' = {r \in db : r.id # last'.id}
          /\ nextId' = nextId
          /\ last.op = "list" =>
                IsNewestFirst(Without(last.rows, last'.id), db', MAX_RECORDS)]_storeVars

\* the row with id 3 was deleted from a full store, the other four rows are
\* stored
C29_Witness ==
    /\ last.op = "delete"
    /\ last.existed
    /\ last.id = 3
    /\ Ids(db) = {1, 2, 4, 5}
    /\ \E r \in db : \E q \in db : r.timestamp < q.timestamp

\* C30: cleanup_old_records leaves a store of at most MAX_RECORDS rows as it
\* is; from a larger store it removes count - MAX_RECORDS rows, none newer
\* than a row it keeps, so that MAX_RECORDS rows remain: the rows the DELETE
\* of a save that counted the same rows may remove.  It hands out no id, and
\* a second call right after the first changes nothing.
C30_CleanupTrimsToCapacity ==
    [][last'.op = "cleanup" =>
          /\ Cardinality(db) <= MAX_RECORDS => db' = db
          /\ Cardinality(db) > MAX_RECORDS =>
                /\ db' \subseteq db
                /\ Cardinality(db') = MAX_RECORDS
                /\ Cardinality(db \ db') = Cardinality(db) - MAX_RECORDS
                /\ \A r \in db \ db' : \A q \in db' : r.timestamp <= q.timestamp
                /\ (db \ db') \in OldestSets(db, Cardinality(db) - MAX_RECORDS)
          /\ nextId' = nextId
          /\ last.op = "cleanup" => db' = db]_storeVars

\* cleanup_old_records has returned on a store that held MAX_RECORDS + 2
\* rows at start-up: MAX_RECORDS rows are left, two ids are gone
C30_Witness ==
    /\ last.op = "cleanup"
    /\ nextId = MAX_RECORDS + 3
    /\ Cardinality(db) = MAX_RECORDS
    /\ \E r \in db : \E q \in db : r.timestamp < q.timestamp
====
